---- MODULE Spec2Model ----
(***************************************************************************)
(* Model of krakenexapi's call-rate limiter and its retry wrapper          *)
(* (src/src/krakenexapi/api.py), of the nonce and the gather_* loops of    *)
(* the same file, and of the registries of Currency and CurrencyPair       *)
(* (src/src/krakenexapi/wallet.py).  Each part has its own variables and   *)
(* its own specification; the actions of one part leave the variables of   *)
(* the others unchanged.                                                   *)
(*                                                                         *)
(* Numbers.  The code computes with Python floats.  Here every cost,       *)
(* limit and counter is an integer number of hundredths (15.0 is 1500,     *)
(* 0.33 is 33) and time is counted in whole seconds, so decay * seconds    *)
(* is exact.  float("inf") and the nan that inf - inf yields are the two   *)
(* distinguished values INF and NAN, handled by FAdd / FSub / FLe.         *)
(* time() - _last_time is kept as the field "since" of a budget; it is     *)
(* saturated at the number of seconds after which decay() floors the       *)
(* counter at 0 anyway, which keeps the state space finite without         *)
(* changing any result of decay().                                         *)
(* sleep(s) suspends the caller for at least s seconds: a sleep of a       *)
(* fractional duration num/den lasts the next whole number of seconds.     *)
(***************************************************************************)
EXTENDS Integers, Sequences, FiniteSets, TLC

\* ------------------------------------------------------------------------
\* Bounds of the model (not program constants)

\* longest pause, in seconds, a caller makes between two operations
MaxIdle == 3
\* number of queries one behaviour of the client issues
MaxQueries == 2
\* largest finite counter, in units, explored for a budget that never decays
MaxUndecayed == 4

\* number of Currency or CurrencyPair instances one behaviour constructs
MaxInstances == 3

\* number of calls one behaviour makes on a limiter used on its own
MaxCalls == 3

\* number of check() calls each thread makes on a shared budget
MaxChecks == 2
\* seconds of wall-clock time that pass while threads share a budget
MaxClock == 2

\* largest number of entries the server holds for a gather_* call
MaxEntries == 3
\* largest number of entries the server returns in one page
MaxPage == 2

\* number of signed requests one behaviour of a client sends
MaxSigned == 4
\* longest time, in clock ticks, one request takes
MaxTicks == 3
\* length of the longest run of blocking check_call for one endpoint that a
\* caller makes back to back on a new limiter
MaxBurst == 15

\* ------------------------------------------------------------------------
\* Representation of floats

\* hundredths per unit: 1.0 is 100
Scale == 100
\* float("inf")
INF == 1000000
\* float nan, the value of inf - inf
NAN == 0 - 1000000
\* the default argument cost=None of can_call / check / check_and_wait
None == 0 - 1

Max(a, b) == IF a >= b THEN a ELSE b
Min(a, b) == IF a <= b THEN a ELSE b

\* least n with n * den >= num, for num >= 0 and den > 0
CeilDiv(num, den) == (num + den - 1) \div den

\* float addition of non-negative values
FAdd(a, b) == IF a = INF \/ b = INF THEN INF ELSE a + b
\* float subtraction a - b of non-negative values
FSub(a, b) ==
    IF a = INF /\ b = INF THEN NAN
    ELSE IF a = INF THEN INF
    ELSE IF b = INF THEN 0 - INF
    ELSE a - b
\* float comparison a <= b; every comparison with nan is false
FLe(a, b) == IF a = NAN \/ b = NAN THEN FALSE ELSE a <= b
\* variant of FMax0 without the floor at 0.0
FMax0_NoFloor(x) == x
\* max(0.0, x)
FMax0(x) == IF FLe(0, x) THEN x ELSE 0

\* ------------------------------------------------------------------------
\* Endpoint tables

API_METHODS_PUBLIC ==
    {"Time", "SystemStatus", "Assets", "AssetPairs", "Ticker", "OHLC",
     "Depth", "Trades", "Spread"}

API_METHODS_PRIVATE ==
    {"Balance", "TradeBalance", "TradeVolume", "DepositMethods",
     "DepositAddresses", "DepositStatus", "WithdrawInfo", "Withdraw",
     "WithdrawCancel", "WithdrawStatus", "WalletTransfer", "OpenOrders",
     "QueryOrders", "OpenPositions", "ClosedOrders", "QueryTrades",
     "TradesHistory", "AddOrder", "CancelOrder", "Ledgers", "QueryLedgers",
     "AddExport", "RetrieveExport", "ExportStatus", "RemoveExport",
     "GetWebSocketsToken"}

API_METHODS_NO_RETRY == {"AddOrder", "AddExport", "Withdraw", "WalletTransfer"}

\* ------------------------------------------------------------------------
\* _CallRateLimitInfo: one budget is a record
\*   [limit, cost, decay, counter, since], since = time() - _last_time

\* _CallRateLimitInfo(limit, cost, decay): counter 0.0, _last_time 0.0; with
\* a counter of 0 every elapsed time decays to the same value, so since is 0
NewCallRateLimitInfo(limit, cost, decay) ==
    [limit |-> limit, cost |-> cost, decay |-> decay, counter |-> 0, since |-> 0]

\* seconds after which a budget with this counter has decayed to 0
FullDecay(counter, decay) ==
    IF decay = 0 \/ counter = INF THEN 0 ELSE CeilDiv(counter, decay)

\* dt more seconds pass on the wall clock
Elapsed(b, dt) ==
    [b EXCEPT !.since = Min(b.since + dt, FullDecay(b.counter, b.decay))]

\* the value decay() stores into _counter
DecayedCounter(b) == FMax0(FSub(b.counter, b.decay * b.since))

\* decay(): counter = max(0.0, counter - decay * seconds_gone); last_time = now
decay(b) == [b EXCEPT !.counter = DecayedCounter(b), !.since = 0]

\* variant of CostOrDefault that tests the cost for truth: cost or self._cost
CostOrDefault_ZeroAsDefault(b, cost) ==
    IF cost = None \/ cost = 0 THEN b.cost ELSE cost

\* cost if cost is not None else self._cost
CostOrDefault(b, cost) == IF cost = None THEN b.cost ELSE cost

\* variant of time_to_call that leaves the cost of the call out
time_to_call_IgnoringCost(b, cost) ==
    LET remaining == FSub(b.limit, b.counter)
    IN  IF FLe(0, remaining)
        THEN [err |-> FALSE, num |-> 0, den |-> 1]
        ELSE IF b.decay = 0
        THEN [err |-> TRUE, num |-> 0, den |-> 0]
        ELSE [err |-> FALSE, num |-> 0 - remaining, den |-> b.decay]

\* time_to_call(cost): the seconds to wait as the fraction num/den, or the
\* ZeroDivisionError Python raises for a float division by 0.0
time_to_call(b, cost) ==
    LET remaining == FSub(b.limit, FAdd(b.counter, cost))
    IN  IF FLe(0, remaining)
        THEN [err |-> FALSE, num |-> 0, den |-> 1]
        ELSE IF b.decay = 0
        THEN [err |-> TRUE, num |-> 0, den |-> 0]
        ELSE [err |-> FALSE, num |-> 0 - remaining, den |-> b.decay]

\* whole seconds a sleep(num/den) lasts at least
SleepSeconds(t) == CeilDiv(t.num, t.den)

\* variant of can_call that compares with < in place of <=
can_call_Strict(b, cost) ==
    /\ FLe(FAdd(b.counter, CostOrDefault(b, cost)), b.limit)
    /\ FAdd(b.counter, CostOrDefault(b, cost)) # b.limit

\* can_call(cost)
can_call(b, cost) == FLe(FAdd(b.counter, CostOrDefault(b, cost)), b.limit)

\* variant of set_exceeded with a cool-down of two seconds of decay
set_exceeded_TwoPeriods(b) ==
    [b EXCEPT !.counter = FAdd(b.limit, b.decay * 2), !.since = 0]

\* set_exceeded(): counter = limit + decay * 3; last_time = now
set_exceeded(b) ==
    [b EXCEPT !.counter = FAdd(b.limit, b.decay * 3), !.since = 0]

\* variant of check that adds the cost also when the call is denied
check_ChargeAlways(b, cost) ==
    LET d  == decay(b)
        c  == CostOrDefault(d, cost)
        ok == can_call(d, c)
    IN  [b |-> [d EXCEPT !.counter = FAdd(d.counter, c)], ret |-> ok]

\* check(cost): the budget after the call and the value returned
check(b, cost) ==
    LET d  == decay(b)
        c  == CostOrDefault(d, cost)
        ok == can_call(d, c)
    IN  [b |-> IF ok THEN [d EXCEPT !.counter = FAdd(d.counter, c)] ELSE d,
         ret |-> ok]

\* the one element of a singleton set; { f(x) : x \in {e} } evaluates e once
Only(S) == CHOOSE x \in S : TRUE

\* variant of wait_and_admit that sleeps but does not charge the cost
wait_and_admit_NoCharge(d, c, t, extra) ==
    IF t.err
    THEN [b |-> d, err |-> TRUE, slept |-> 0, wait |-> t]
    ELSE [b |-> [d EXCEPT !.since = Min(SleepSeconds(t) + extra,
                                        FullDecay(d.counter, d.decay))],
          err |-> FALSE, slept |-> SleepSeconds(t) + extra, wait |-> t]

\* check_and_wait after decay(), for the decayed budget d, the resolved cost
\* c and the waiting time t: sleep(seconds); self._counter += cost
wait_and_admit(d, c, t, extra) ==
    IF t.err
    THEN [b |-> d, err |-> TRUE, slept |-> 0, wait |-> t]
    ELSE [b |-> [d EXCEPT !.counter = FAdd(d.counter, c),
                          !.since = Min(SleepSeconds(t) + extra,
                                        FullDecay(FAdd(d.counter, c), d.decay))],
          err |-> FALSE, slept |-> SleepSeconds(t) + extra, wait |-> t]

\* check_and_wait(cost) with a sleep that lasts extra seconds longer than
\* asked: the budget after the call, whether it raised ZeroDivisionError,
\* the seconds slept and the waiting time computed
check_and_wait(b, cost, extra) ==
    Only({ Only({ wait_and_admit(d, CostOrDefault(d, cost), t, extra) :
                      t \in {time_to_call(d, CostOrDefault(d, cost))} }) :
               d \in {decay(b)} })

\* ------------------------------------------------------------------------
\* A budget on its own, driven by one caller (tests/test_call_rate_limiting.py)

VARIABLES
    bud,      \* the _CallRateLimitInfo under test
    pre,      \* the budget as it was when the last operation was called
    last,     \* the last operation: its name, resolved cost and outcome
    mon       \* progress of "check denied, then sleep time_to_call(cost)"

budgetVars == <<bud, pre, last, mon>>

\* The rate-limited client, RawCallRateLimitedKrakenExAPI
VARIABLES
    tier,     \* the tier the client was constructed with
    hasKey,   \* whether both the API key and the API secret are set
    crl,      \* KrakenExAPICallRateLimiter: _crl_public and _crl_private
    pc,       \* where the caller is inside query_public / query_private
    kind,     \* "public" for query_public, "private" for query_private
    method,   \* the method argument of the query
    i,        \* index of the retry loop, -1 during the first attempt
    trace,    \* what the query did so far: gate, sleep, call and mark events
    result,   \* how the query ended
    crl0,     \* both budgets as they were when the query was called
    queries   \* number of queries issued so far

clientVars == <<tier, hasKey, crl, pc, kind, method, i, trace, result, crl0, queries>>

\* A KrakenExAPICallRateLimiter on its own, driven by one caller
VARIABLES
    lim,      \* the limiter: _crl_public and _crl_private
    lim0,     \* the limiter as it was when the last call on it was made
    lcall,    \* the last call on the limiter and its outcome
    calls,    \* number of calls made on the limiter so far
    streak,   \* how many blocking check_call of lcall.m were made back to back
    gap       \* seconds since the last admitted public call left the gate

limiterVars == <<lim, lim0, lcall, calls, streak, gap>>

\* The registry of a singleton class of wallet.py, Currency or CurrencyPair
VARIABLES
    cls,      \* the class whose registry this is
    registry, \* __currencies / __currency_pairs: the instance of each key
    made,     \* number of instances constructed so far
    first,    \* for each key, the first instance that was registered for it
    rop       \* the last constructor or find call and its outcome

registryVars == <<cls, registry, made, first, rop>>

\* One _CallRateLimitInfo shared by two threads that call check()
VARIABLES
    tb,       \* the shared budget: _limit, _cost, _decay, _counter, _last_time
    clock,    \* time(), in whole seconds
    th,       \* each thread: where it is inside check() and its local values
    checks    \* for each thread, the number of check() calls it has made

threadVars == <<tb, clock, th, checks>>

\* One call of gather_closed_orders, gather_trades or gather_ledgers
VARIABLES
    gfun,     \* which of the three functions is running
    gpc,      \* where the caller is inside the function
    gstart,   \* the offset keyword argument, 0 when absent
    gofs,     \* the local offset
    gtotal,   \* the local total
    gcoll,    \* the keys of the dict of entries collected so far
    gsrv,     \* the server: how many entries it holds, whether it is steady
    ghist     \* the requests made: the ofs parameter sent and the page received

gatherVars == <<gfun, gpc, gstart, gofs, gtotal, gcoll, gsrv, ghist>>

\* The nonces of the private requests of one client
VARIABLES
    nclock,   \* time() + NONCE_OFFSET, in ticks of half a millisecond
    npc,      \* where the caller is inside query_private
    ni,       \* index of the retry loop, -1 during the first attempt
    nsent     \* the nonces of the signed requests sent so far, in order

nonceVars == <<nclock, npc, ni, nsent>>

vars == <<bud, pre, last, mon, tier, hasKey, crl, pc, kind, method, i, trace, result,
          crl0, queries, lim, lim0, lcall, calls, streak, gap,
          cls, registry, made, first, rop, tb, clock, th, checks,
          gfun, gpc, gstart, gofs, gtotal, gcoll, gsrv, ghist,
          nclock, npc, ni, nsent>>

\* budgets the program and its tests construct, as (limit, cost, decay)
BudgetConfigs ==
    { <<10 * Scale, 5 * Scale, 2 * Scale>>,       \* test_crli_exact
      <<1 * Scale, 1 * Scale, 1 * Scale>>,        \* test_crli_1per1, public
      <<10 * Scale, 5 * Scale, 250>>,             \* test_crli_nperm
      <<INF, 0, 0>>,                              \* no tier
      <<20 * Scale, 1 * Scale, 1 * Scale>> }      \* pro

\* the costs a caller passes: the default, and the costs of _get_cost
CallCosts == {None, 0, 1 * Scale, 2 * Scale}

\* how much longer than asked a sleep may last, in seconds
SleepExtra == {0, 1}

\* a budget without decay accumulates cost for ever: explore it up to a bound
WithinBounds(b) == b.decay = 0 /\ b.counter # INF => b.counter <= MaxUndecayed * Scale

NoOp == [op |-> "new", cost |-> 0, ret |-> FALSE, err |-> FALSE, waited |-> FALSE,
         slept |-> 0, num |-> 0, den |-> 1, idle |-> FALSE]
NoMon == [st |-> "none", cost |-> 0, cool |-> 0 - 1]

\* mon.cool is the number of whole seconds since the last set_exceeded while
\* that is less than 3, and -1 otherwise; its value dt seconds later
Cooled(c, dt) == IF c = 0 - 1 \/ c + dt >= 3 THEN 0 - 1 ELSE c + dt

\* a budget right after _CallRateLimitInfo(limit, cost, decay)
BudgetInit(cfgs) ==
    /\ \E cfg \in cfgs : bud = NewCallRateLimitInfo(cfg[1], cfg[2], cfg[3])
    /\ pre = bud
    /\ last = NoOp
    /\ mon = NoMon

\* wall-clock time passes between two operations
BElapse ==
    \E dt \in 1..MaxIdle :
        /\ bud' = Elapsed(bud, dt)
        /\ last' = [last EXCEPT !.idle = TRUE]
        /\ mon' = [mon EXCEPT !.cool = Cooled(mon.cool, dt)]
        /\ UNCHANGED pre
        /\ UNCHANGED clientVars
        /\ UNCHANGED limiterVars
        /\ UNCHANGED registryVars
        /\ UNCHANGED threadVars
        /\ UNCHANGED gatherVars
        /\ UNCHANGED nonceVars

BDecay ==
    /\ bud' = decay(bud)
    /\ pre' = bud
    /\ last' = [NoOp EXCEPT !.op = "decay"]
    /\ mon' = [NoMon EXCEPT !.cool = mon.cool]
    /\ UNCHANGED clientVars
    /\ UNCHANGED limiterVars
    /\ UNCHANGED registryVars
    /\ UNCHANGED threadVars
    /\ UNCHANGED gatherVars
    /\ UNCHANGED nonceVars

BCheck ==
    \E cost \in CallCosts :
        \E r \in {check(bud, cost)}, c \in {CostOrDefault(bud, cost)} :
            /\ WithinBounds(r.b)
            /\ bud' = r.b
            /\ pre' = bud
            /\ last' = [NoOp EXCEPT !.op = "check", !.cost = c, !.ret = r.ret,
                                     !.waited = (mon.st = "waited" /\ mon.cost = c)]
            /\ mon' = IF r.ret THEN [NoMon EXCEPT !.cool = mon.cool]
                      ELSE [st |-> "denied", cost |-> c, cool |-> mon.cool]
            /\ UNCHANGED clientVars
            /\ UNCHANGED limiterVars
            /\ UNCHANGED registryVars
            /\ UNCHANGED threadVars
            /\ UNCHANGED gatherVars
            /\ UNCHANGED nonceVars

BCheckAndWait ==
    \E cost \in CallCosts, extra \in SleepExtra :
        \E r \in {check_and_wait(bud, cost, extra)} :
            /\ WithinBounds(r.b)
            /\ bud' = r.b
            /\ pre' = bud
            /\ last' = [NoOp EXCEPT !.op = "check_and_wait",
                                     !.cost = CostOrDefault(bud, cost),
                                     !.ret = ~r.err, !.err = r.err,
                                     !.slept = r.slept, !.num = r.wait.num,
                                     !.den = r.wait.den]
            /\ mon' = [NoMon EXCEPT !.cool = Cooled(mon.cool, r.slept)]
            /\ UNCHANGED clientVars
            /\ UNCHANGED limiterVars
            /\ UNCHANGED registryVars
            /\ UNCHANGED threadVars
            /\ UNCHANGED gatherVars
            /\ UNCHANGED nonceVars

BSetExceeded ==
    /\ bud' = set_exceeded(bud)
    /\ pre' = bud
    /\ last' = [NoOp EXCEPT !.op = "set_exceeded"]
    /\ mon' = [NoMon EXCEPT !.cool = 0]
    /\ UNCHANGED clientVars
    /\ UNCHANGED limiterVars
    /\ UNCHANGED registryVars
    /\ UNCHANGED threadVars
    /\ UNCHANGED gatherVars
    /\ UNCHANGED nonceVars

\* seconds = crl.time_to_call(cost); time.sleep(seconds)
BSleepTimeToCall ==
    \E cost \in CallCosts \ {None}, extra \in SleepExtra :
        \E t \in {time_to_call(bud, cost)} :
        \E s \in {IF t.err THEN 0 ELSE SleepSeconds(t) + extra} :
            /\ bud' = IF t.err THEN bud ELSE Elapsed(bud, s)
            /\ pre' = bud
            /\ last' = [NoOp EXCEPT !.op = "sleep_time_to_call", !.cost = cost,
                                     !.ret = ~t.err, !.err = t.err, !.slept = s,
                                     !.num = t.num, !.den = t.den]
            /\ mon' = IF mon.st = "denied" /\ mon.cost = cost /\ ~t.err
                      THEN [st |-> "waited", cost |-> cost,
                            cool |-> Cooled(mon.cool, s)]
                      ELSE [NoMon EXCEPT !.cool = Cooled(mon.cool, s)]
            /\ UNCHANGED clientVars
            /\ UNCHANGED limiterVars
            /\ UNCHANGED registryVars
            /\ UNCHANGED threadVars
            /\ UNCHANGED gatherVars
            /\ UNCHANGED nonceVars

\* ------------------------------------------------------------------------
\* KrakenExAPICallRateLimiter

Tiers == {"None", "Starter", "Intermediate", "Pro"}

\* _reset_account_crl(): the private budget of a tier
reset_account_crl(t) ==
    IF t = "Starter" THEN NewCallRateLimitInfo(15 * Scale, 1 * Scale, 33)
    ELSE IF t = "Intermediate" THEN NewCallRateLimitInfo(20 * Scale, 1 * Scale, 50)
    ELSE IF t = "Pro" THEN NewCallRateLimitInfo(20 * Scale, 1 * Scale, 1 * Scale)
    ELSE NewCallRateLimitInfo(INF, 0, 0)

\* variant of NewCallRateLimiter with a public budget of limit 2
NewCallRateLimiter_PublicLimitTwo(t) ==
    [public  |-> NewCallRateLimitInfo(2 * Scale, 1 * Scale, 1 * Scale),
     private |-> reset_account_crl(t)]

\* KrakenExAPICallRateLimiter(tier)
NewCallRateLimiter(t) ==
    [public  |-> NewCallRateLimitInfo(1 * Scale, 1 * Scale, 1 * Scale),
     private |-> reset_account_crl(t)]

is_private(m) == m \in API_METHODS_PRIVATE

\* variant of get_cost without the endpoints of cost 2
get_cost_NoDouble(m) ==
    IF m \in {"AddOrder", "CancelOrder"} THEN 0
    ELSE 1 * Scale

get_cost(m) ==
    IF m \in {"Ledgers", "TradesHistory", "ClosedOrders"} THEN 2 * Scale
    ELSE IF m \in {"AddOrder", "CancelOrder"} THEN 0
    ELSE 1 * Scale

\* variant of BudgetOf that selects the public budget for every method
BudgetOf_AlwaysPublic(m) == "public"

\* the budget check_call and set_exceeded select for a method
BudgetOf(m) == IF is_private(m) THEN "private" ELSE "public"
\* the cost check_call passes on
CostOf(m) == IF is_private(m) THEN get_cost(m) ELSE None
\* the other of the two budgets
OtherBudget(bn) == IF bn = "private" THEN "public" ELSE "private"

\* check_call(method, wait=True) once check_and_wait gave r on budget bn; the
\* other budget ages by the seconds slept
gate_result(l, bn, r) ==
    [crl |-> [l EXCEPT ![bn] = r.b,
                       ![OtherBudget(bn)] = Elapsed(l[OtherBudget(bn)], r.slept)],
     err |-> r.err, slept |-> r.slept, wait |-> r.wait]

\* check_call(method, wait=True): the limiter after the call, whether
\* check_and_wait raised, and the seconds slept
check_call_wait(l, m) ==
    Only({ gate_result(l, BudgetOf(m), r) :
               r \in {check_and_wait(l[BudgetOf(m)], CostOf(m), 0)} })

\* check_call(method, wait=False)
check_call_nowait(l, m) ==
    LET bn == BudgetOf(m)
        r  == check(l[bn], CostOf(m))
    IN  [crl |-> [l EXCEPT ![bn] = r.b], ret |-> r.ret]

\* variant of limiter_set_exceeded that marks both budgets exceeded
limiter_set_exceeded_BothBudgets(l, m) ==
    [public |-> set_exceeded(l.public), private |-> set_exceeded(l.private)]

\* KrakenExAPICallRateLimiter.set_exceeded(method)
limiter_set_exceeded(l, m) ==
    [l EXCEPT ![BudgetOf(m)] = set_exceeded(l[BudgetOf(m)])]

\* sleep(dt) seen from the limiter: both budgets age by dt seconds
LimiterElapsed(l, dt) ==
    [public |-> Elapsed(l.public, dt), private |-> Elapsed(l.private, dt)]

\* ------------------------------------------------------------------------
\* wallet.py: the singleton registries of Currency and CurrencyPair

\* symbols and alternative names as callers write them
RawNames == {"Sym", "sym", "Nam", "NAM", "ZSym2"}

\* str.upper() on these names
upper(s) ==
    IF s \in {"Sym", "sym"} THEN "SYM"
    ELSE IF s \in {"Nam", "NAM"} THEN "NAM"
    ELSE IF s = "ZSym2" THEN "ZSYM2"
    ELSE IF s = "sym3" THEN "SYM3"
    ELSE s

\* the keys a registry can hold
Keys == {upper(s) : s \in RawNames}

\* no instance
NoInstance == [id |-> 0, symbol |-> "", name |-> ""]

\* variant of post_init without the assertion on the symbol
post_init_NoSymbolAssert(reg, inst) ==
    IF upper(inst.name) # upper(inst.symbol)
    THEN IF reg[upper(inst.name)] # NoInstance
         THEN [reg |-> [reg EXCEPT ![upper(inst.symbol)] = inst],
               err |-> "AssertionError"]
         ELSE [reg |-> [reg EXCEPT ![upper(inst.symbol)] = inst,
                                   ![upper(inst.name)] = inst],
               err |-> ""]
    ELSE [reg |-> [reg EXCEPT ![upper(inst.symbol)] = inst], err |-> ""]

\* __post_init__ of Currency (name) and of CurrencyPair (altname): the
\* registry after it and the exception raised, if any
post_init(reg, inst) ==
    IF reg[upper(inst.symbol)] # NoInstance
    THEN [reg |-> reg, err |-> "AssertionError"]
    ELSE IF upper(inst.name) # upper(inst.symbol)
    THEN IF reg[upper(inst.name)] # NoInstance
         THEN [reg |-> [reg EXCEPT ![upper(inst.symbol)] = inst],
               err |-> "AssertionError"]
         ELSE [reg |-> [reg EXCEPT ![upper(inst.symbol)] = inst,
                                   ![upper(inst.name)] = inst],
               err |-> ""]
    ELSE [reg |-> [reg EXCEPT ![upper(inst.symbol)] = inst], err |-> ""]

\* find(symbol): the instance returned, or KeyError
find(reg, s) ==
    IF upper(s) \in DOMAIN reg /\ reg[upper(s)] # NoInstance
    THEN [ret |-> reg[upper(s)], err |-> ""]
    ELSE [ret |-> NoInstance, err |-> "KeyError"]

\* names find is asked for: the names above and one that is never registered
FindNames == RawNames \cup {"sym3"}

NoRegistryOp ==
    [op |-> "none", symbol |-> "", name |-> "", id |-> 0, err |-> "",
     hadSymbol |-> FALSE, hadName |-> FALSE]

\* the registries are empty when the module is loaded (the tests clear them)
RegistryInit(classes) ==
    /\ cls \in classes
    /\ registry = [k \in Keys |-> NoInstance]
    /\ made = 0
    /\ first = [k \in Keys |-> 0]
    /\ rop = NoRegistryOp

\* Currency(symbol, name, ...) or CurrencyPair(symbol, altname, ...)
Construct ==
    \E sy \in RawNames, na \in RawNames :
        /\ made < MaxInstances
        /\ \E r \in {post_init(registry, [id |-> made + 1, symbol |-> sy, name |-> na])} :
            /\ registry' = r.reg
            /\ rop' = [op |-> "new", symbol |-> sy, name |-> na, id |-> made + 1,
                       err |-> r.err,
                       hadSymbol |-> registry[upper(sy)] # NoInstance,
                       hadName |-> registry[upper(na)] # NoInstance]
            /\ first' = [k \in Keys |->
                            IF first[k] = 0 /\ r.reg[k] # NoInstance
                            THEN r.reg[k].id ELSE first[k]]
        /\ made' = made + 1
        /\ UNCHANGED cls
        /\ UNCHANGED budgetVars
        /\ UNCHANGED clientVars
        /\ UNCHANGED limiterVars
        /\ UNCHANGED threadVars
        /\ UNCHANGED gatherVars
        /\ UNCHANGED nonceVars

\* Currency.find(s) or CurrencyPair.find(s)
Find ==
    \E s \in FindNames :
        /\ rop.op # "find"
        /\ rop' = [NoRegistryOp EXCEPT !.op = "find", !.symbol = s,
                                       !.id = find(registry, s).ret.id,
                                       !.err = find(registry, s).err]
        /\ UNCHANGED <<cls, registry, made, first>>
        /\ UNCHANGED budgetVars
        /\ UNCHANGED clientVars
        /\ UNCHANGED limiterVars
        /\ UNCHANGED threadVars
        /\ UNCHANGED gatherVars
        /\ UNCHANGED nonceVars

\* the names a caller passes to check_call and set_exceeded: a public
\* endpoint, private endpoints of cost 1, 2 and 0, and a name that is no
\* endpoint
GateMethods == {"Time", "Balance", "Ledgers", "CancelOrder", "Bogus"}

NoCall == [op |-> "new", m |-> "", wait |-> FALSE, ret |-> FALSE, err |-> FALSE,
           slept |-> 0, num |-> 0, den |-> 1, gap |-> 0 - 1, idle |-> FALSE]

\* the gap dt seconds later; it is followed up to one second, and is -1
\* as long as no public call was admitted
AgedGap(g, dt) == IF g = 0 - 1 THEN g ELSE Min(g + dt, 1)

\* a limiter right after KrakenExAPICallRateLimiter(tier)
LimiterInit(tiers) ==
    /\ \E t \in tiers : lim = NewCallRateLimiter(t)
    /\ lim0 = lim
    /\ lcall = NoCall
    /\ calls = 0
    /\ streak = 0
    /\ gap = 0 - 1

\* the caller goes on with a run of blocking check_call(m) that it began
\* on the new limiter
InBurst(m) ==
    /\ streak = calls
    /\ calls = 0 \/ (lcall.op = "check_call" /\ lcall.wait /\ lcall.m = m /\ ~lcall.idle)

\* check_call(m, wait=True)
LCheckCallWait ==
    \E m \in GateMethods :
        /\ calls < MaxCalls \/ (InBurst(m) /\ calls < MaxBurst)
        /\ \E r \in {check_call_wait(lim, m)} :
            /\ lim' = r.crl
            /\ lcall' = [NoCall EXCEPT !.op = "check_call", !.m = m, !.wait = TRUE,
                                       !.ret = ~r.err, !.err = r.err,
                                       !.slept = r.slept, !.num = r.wait.num,
                                       !.den = r.wait.den,
                                       !.gap = AgedGap(gap, r.slept)]
            /\ gap' = IF ~r.err /\ BudgetOf(m) = "public" THEN 0
                      ELSE AgedGap(gap, r.slept)
        /\ lim0' = lim
        /\ calls' = calls + 1
        /\ streak' = IF calls = 0 \/ (lcall.op = "check_call" /\ lcall.wait
                                        /\ lcall.m = m /\ ~lcall.idle)
                      THEN streak + 1 ELSE 1
        /\ UNCHANGED budgetVars
        /\ UNCHANGED clientVars
        /\ UNCHANGED registryVars
        /\ UNCHANGED threadVars
        /\ UNCHANGED gatherVars
        /\ UNCHANGED nonceVars

\* check_call(m, wait=False)
LCheckCallNoWait ==
    \E m \in GateMethods :
        /\ calls < MaxCalls
        /\ \E r \in {check_call_nowait(lim, m)} :
            /\ lim' = r.crl
            /\ lcall' = [NoCall EXCEPT !.op = "check_call", !.m = m,
                                       !.ret = r.ret, !.gap = gap]
            /\ gap' = IF r.ret /\ BudgetOf(m) = "public" THEN 0 ELSE gap
        /\ lim0' = lim
        /\ calls' = calls + 1
        /\ streak' = 0
        /\ UNCHANGED budgetVars
        /\ UNCHANGED clientVars
        /\ UNCHANGED registryVars
        /\ UNCHANGED threadVars
        /\ UNCHANGED gatherVars
        /\ UNCHANGED nonceVars

\* set_exceeded(m)
LSetExceeded ==
    \E m \in GateMethods :
        /\ calls < MaxCalls
        /\ lim' = limiter_set_exceeded(lim, m)
        /\ lcall' = [NoCall EXCEPT !.op = "set_exceeded", !.m = m, !.gap = gap]
        /\ lim0' = lim
        /\ calls' = calls + 1
        /\ streak' = 0
        /\ UNCHANGED gap
        /\ UNCHANGED budgetVars
        /\ UNCHANGED clientVars
        /\ UNCHANGED registryVars
        /\ UNCHANGED threadVars
        /\ UNCHANGED gatherVars
        /\ UNCHANGED nonceVars

\* the caller pauses between two calls on the limiter
LElapse ==
    \E dt \in 1..MaxIdle :
        /\ ~lcall.idle
        /\ lim' = LimiterElapsed(lim, dt)
        /\ lcall' = [lcall EXCEPT !.idle = TRUE]
        /\ gap' = AgedGap(gap, dt)
        /\ UNCHANGED <<lim0, calls, streak>>
        /\ UNCHANGED budgetVars
        /\ UNCHANGED clientVars
        /\ UNCHANGED registryVars
        /\ UNCHANGED threadVars
        /\ UNCHANGED gatherVars
        /\ UNCHANGED nonceVars

\* ------------------------------------------------------------------------
\* One budget shared by threads.  wrapt.synchronized on the class statement
\* takes the lock of the class while an instance is constructed; decay, check
\* and the other methods are plain functions of the instance and run without
\* a lock, so a thread switch can fall between any two of their reads and
\* writes of _counter and _last_time.

Threads == {1, 2}

\* a thread outside check()
IdleThread == [pc |-> "idle", now |-> 0, gone |-> 0, reg |-> 0, cost |-> 0,
               ok |-> FALSE, ret |-> FALSE]

\* a shared budget right after _CallRateLimitInfo(limit, cost, decay)
ThreadInit(cfgs) ==
    /\ \E cfg \in cfgs :
          tb = [limit |-> cfg[1], cost |-> cfg[2], decay |-> cfg[3],
                counter |-> 0, last |-> 0]
    /\ clock = 0
    /\ th = [t \in Threads |-> IdleThread]
    /\ checks = [t \in Threads |-> 0]

\* thread t calls check(): decay() reads time() and _last_time
TCall ==
    \E t \in Threads :
        /\ th[t].pc = "idle"
        /\ checks[t] < MaxChecks
        /\ checks' = [checks EXCEPT ![t] = checks[t] + 1]
        /\ th' = [th EXCEPT ![t] = [IdleThread EXCEPT !.pc = "decay_read",
                                                     !.now = clock,
                                                     !.gone = clock - tb.last,
                                                     !.cost = tb.cost]]
        /\ UNCHANGED <<tb, clock>>
        /\ UNCHANGED budgetVars
        /\ UNCHANGED clientVars
        /\ UNCHANGED limiterVars
        /\ UNCHANGED registryVars
        /\ UNCHANGED gatherVars
        /\ UNCHANGED nonceVars

\* decay(): the read of self._counter
TDecayRead ==
    \E t \in Threads :
        /\ th[t].pc = "decay_read"
        /\ th' = [th EXCEPT ![t].pc = "decay_store", ![t].reg = tb.counter]
        /\ UNCHANGED <<tb, clock, checks>>
        /\ UNCHANGED budgetVars
        /\ UNCHANGED clientVars
        /\ UNCHANGED limiterVars
        /\ UNCHANGED registryVars
        /\ UNCHANGED gatherVars
        /\ UNCHANGED nonceVars

\* decay(): self._counter = max(0.0, ... - self._decay * seconds_gone)
TDecayStore ==
    \E t \in Threads :
        /\ th[t].pc = "decay_store"
        /\ tb' = [tb EXCEPT !.counter = FMax0(FSub(th[t].reg, tb.decay * th[t].gone))]
        /\ th' = [th EXCEPT ![t].pc = "decay_time"]
        /\ UNCHANGED <<clock, checks>>
        /\ UNCHANGED budgetVars
        /\ UNCHANGED clientVars
        /\ UNCHANGED limiterVars
        /\ UNCHANGED registryVars
        /\ UNCHANGED gatherVars
        /\ UNCHANGED nonceVars

\* decay(): self._last_time = now
TDecayTime ==
    \E t \in Threads :
        /\ th[t].pc = "decay_time"
        /\ tb' = [tb EXCEPT !.last = th[t].now]
        /\ th' = [th EXCEPT ![t].pc = "can_call"]
        /\ UNCHANGED <<clock, checks>>
        /\ UNCHANGED budgetVars
        /\ UNCHANGED clientVars
        /\ UNCHANGED limiterVars
        /\ UNCHANGED registryVars
        /\ UNCHANGED gatherVars
        /\ UNCHANGED nonceVars

\* ok = self.can_call(cost)
TCanCall ==
    \E t \in Threads :
        /\ th[t].pc = "can_call"
        /\ th' = [th EXCEPT ![t].ok = can_call(tb, th[t].cost),
                            ![t].pc = IF can_call(tb, th[t].cost)
                                      THEN "add_read" ELSE "return"]
        /\ UNCHANGED <<tb, clock, checks>>
        /\ UNCHANGED budgetVars
        /\ UNCHANGED clientVars
        /\ UNCHANGED limiterVars
        /\ UNCHANGED registryVars
        /\ UNCHANGED gatherVars
        /\ UNCHANGED nonceVars

\* self._counter += cost: the read of self._counter
TAddRead ==
    \E t \in Threads :
        /\ th[t].pc = "add_read"
        /\ th' = [th EXCEPT ![t].pc = "add_store", ![t].reg = tb.counter]
        /\ UNCHANGED <<tb, clock, checks>>
        /\ UNCHANGED budgetVars
        /\ UNCHANGED clientVars
        /\ UNCHANGED limiterVars
        /\ UNCHANGED registryVars
        /\ UNCHANGED gatherVars
        /\ UNCHANGED nonceVars

\* self._counter += cost: the store
TAddStore ==
    \E t \in Threads :
        /\ th[t].pc = "add_store"
        /\ tb' = [tb EXCEPT !.counter = FAdd(th[t].reg, th[t].cost)]
        /\ th' = [th EXCEPT ![t].pc = "return"]
        /\ UNCHANGED <<clock, checks>>
        /\ UNCHANGED budgetVars
        /\ UNCHANGED clientVars
        /\ UNCHANGED limiterVars
        /\ UNCHANGED registryVars
        /\ UNCHANGED gatherVars
        /\ UNCHANGED nonceVars

\* return ok
TReturn ==
    \E t \in Threads :
        /\ th[t].pc = "return"
        /\ th' = [th EXCEPT ![t].pc = "idle", ![t].ret = th[t].ok]
        /\ UNCHANGED <<tb, clock, checks>>
        /\ UNCHANGED budgetVars
        /\ UNCHANGED clientVars
        /\ UNCHANGED limiterVars
        /\ UNCHANGED registryVars
        /\ UNCHANGED gatherVars
        /\ UNCHANGED nonceVars

\* a second of wall-clock time passes
Tick ==
    /\ clock < MaxClock
    /\ clock' = clock + 1
    /\ UNCHANGED <<tb, th, checks>>
    /\ UNCHANGED budgetVars
    /\ UNCHANGED clientVars
    /\ UNCHANGED limiterVars
    /\ UNCHANGED registryVars
    /\ UNCHANGED gatherVars
    /\ UNCHANGED nonceVars

ThreadNext ==
    \/ TCall \/ TDecayRead \/ TDecayStore \/ TDecayTime
    \/ TCanCall \/ TAddRead \/ TAddStore \/ TReturn \/ Tick

\* ------------------------------------------------------------------------
\* gather_closed_orders, gather_trades and gather_ledgers.  The entries the
\* server holds are numbered from 0; a page is the set of their numbers.

GatherFunctions == {"gather_closed_orders", "gather_trades", "gather_ledgers"}

\* if offset: data["ofs"] = offset -- the parameter is left out for offset 0
OfsParam(offset) == IF offset = 0 THEN None ELSE offset
\* the offset the server pages from: 0 when the parameter is absent
ServerOffset(param) == IF param = None THEN 0 ELSE param

\* the entries numbered from o that a page of at most k entries holds on a
\* server with n entries
Page(n, o, k) == {e \in 0..(n - 1) : o <= e /\ e < o + k}

\* variant of NextOffset that counts one entry for each page
NextOffset_OnePerPage(offset, entries) == offset + 1

\* offset += len(entries)
NextOffset(offset, entries) == offset + Cardinality(entries)

\* no gather_* call was made yet; the server holds n entries, and is steady
\* when it reports n as the total with every page and returns a page that is
\* not empty for every offset below n
GatherInit(ns, steady) ==
    /\ gfun = "gather_ledgers"
    /\ gpc = "idle"
    /\ gstart = 0
    /\ gofs = 0
    /\ gtotal = 0
    /\ gcoll = {}
    /\ \E n \in ns, st \in steady : gsrv = [n |-> n, steady |-> st]
    /\ ghist = <<>>

\* gather_*(api, offset=start): offset = kwargs.pop("offset", 0);
\* total = offset + 1
GatherCall ==
    \E f \in GatherFunctions, start \in 0..(MaxEntries + 1) :
        /\ gpc = "idle"
        /\ gfun' = f
        /\ gstart' = start
        /\ gofs' = start
        /\ gtotal' = start + 1
        /\ gcoll' = {}
        /\ ghist' = <<>>
        /\ gpc' = "while"
        /\ UNCHANGED gsrv
        /\ UNCHANGED budgetVars
        /\ UNCHANGED clientVars
        /\ UNCHANGED limiterVars
        /\ UNCHANGED registryVars
        /\ UNCHANGED threadVars
        /\ UNCHANGED nonceVars

\* while offset < total
GatherWhile ==
    /\ gpc = "while"
    /\ gpc' = IF gofs < gtotal THEN "request" ELSE "return"
    /\ UNCHANGED <<gfun, gstart, gofs, gtotal, gcoll, gsrv, ghist>>
    /\ UNCHANGED budgetVars
    /\ UNCHANGED clientVars
    /\ UNCHANGED limiterVars
    /\ UNCHANGED registryVars
    /\ UNCHANGED threadVars
    /\ UNCHANGED nonceVars

\* entries, total = api.get_*(offset=offset); if not entries: break;
\* ledger_entries.update(entries); offset += len(entries)
GatherPage ==
    \E k \in 0..MaxPage, count \in 0..(MaxEntries + 1) :
        \E entries \in {Page(gsrv.n, ServerOffset(OfsParam(gofs)), k)} :
            /\ gpc = "request"
            /\ gsrv.steady => count = gsrv.n
            /\ gsrv.steady /\ ServerOffset(OfsParam(gofs)) < gsrv.n => k >= 1
            /\ gtotal' = count
            /\ ghist' = Append(ghist, [ofs |-> OfsParam(gofs), page |-> entries,
                                       total |-> count])
            /\ IF entries = {}
               THEN /\ gpc' = "return"
                    /\ UNCHANGED <<gcoll, gofs>>
               ELSE /\ gcoll' = gcoll \cup entries
                    /\ gofs' = NextOffset(gofs, entries)
                    /\ gpc' = "while"
            /\ UNCHANGED <<gfun, gstart, gsrv>>
            /\ UNCHANGED budgetVars
            /\ UNCHANGED clientVars
            /\ UNCHANGED limiterVars
            /\ UNCHANGED registryVars
            /\ UNCHANGED threadVars
            /\ UNCHANGED nonceVars

\* return the entries
GatherReturn ==
    /\ gpc = "return"
    /\ gpc' = "done"
    /\ UNCHANGED <<gfun, gstart, gofs, gtotal, gcoll, gsrv, ghist>>
    /\ UNCHANGED budgetVars
    /\ UNCHANGED clientVars
    /\ UNCHANGED limiterVars
    /\ UNCHANGED registryVars
    /\ UNCHANGED threadVars
    /\ UNCHANGED nonceVars

GatherNext == GatherCall \/ GatherWhile \/ GatherPage \/ GatherReturn

\* ------------------------------------------------------------------------
\* RawKrakenExAPI and RawCallRateLimitedKrakenExAPI

\* self._num_retries
num_retries == 3

\* what the server answers: a result, or an error list with this message
Responses ==
    {"ok", "EAPI:Rate limit exceeded", "EGeneral:Invalid arguments",
     "EGeneral:Permission denied", "EAPI:Invalid nonce", "EService:Unavailable"}

\* variant of RawQueryRaw that takes a permission error for a rate-limit error
RawQueryRaw_PermissionAsRateLimit(resp) ==
    IF resp = "ok" THEN "return"
    ELSE IF resp \in {"EAPI:Rate limit exceeded", "EGeneral:Permission denied"}
    THEN "APIRateLimitExceeded"
    ELSE IF resp = "EGeneral:Invalid arguments" THEN "APIArgumentUsageError"
    ELSE "KrakenExAPIError"

\* RawKrakenExAPI._query_raw: the exception raised for a response, or "return"
RawQueryRaw(resp) ==
    IF resp = "ok" THEN "return"
    ELSE IF resp = "EAPI:Rate limit exceeded" THEN "APIRateLimitExceeded"
    ELSE IF resp = "EGeneral:Invalid arguments" THEN "APIArgumentUsageError"
    ELSE IF resp = "EGeneral:Permission denied" THEN "APIPermissionDenied"
    ELSE "KrakenExAPIError"

\* the methods a caller asks for: one or more of each class and cost, and
\* a name that is no endpoint at all
Methods == {"Time", "Balance", "Ledgers", "CancelOrder", "AddOrder", "Withdraw", "Bogus"}

\* variant of Precheck that lets query_public pass any name
Precheck_AnyPublicName(k, m, key) ==
    IF k = "public" THEN "ok"
    ELSE IF m \notin API_METHODS_PRIVATE THEN "NoSuchAPIMethod"
    ELSE IF ~key THEN "NoPrivateKey"
    ELSE "ok"

\* variant of Precheck that does not look at the key and the secret
Precheck_NoKeyCheck(k, m, key) ==
    IF k = "public"
    THEN IF m \notin API_METHODS_PUBLIC THEN "NoSuchAPIMethod" ELSE "ok"
    ELSE IF m \notin API_METHODS_PRIVATE THEN "NoSuchAPIMethod"
    ELSE "ok"

\* RawKrakenExAPI.query_public / query_private up to the call of _query_raw:
\* the exception raised, or "ok"
Precheck(k, m, key) ==
    IF k = "public"
    THEN IF m \notin API_METHODS_PUBLIC THEN "NoSuchAPIMethod" ELSE "ok"
    ELSE IF m \notin API_METHODS_PRIVATE THEN "NoSuchAPIMethod"
    ELSE IF ~key THEN "NoPrivateKey"
    ELSE "ok"

\* variant of MayRetry that does not look at API_METHODS_NO_RETRY
MayRetry_IgnoringNoRetry(k, m) == num_retries > 0

\* the retry condition of the except block of query_public / query_private
MayRetry(k, m) ==
    IF k = "public" THEN num_retries > 0
    ELSE num_retries > 0 /\ m \notin API_METHODS_NO_RETRY

RECURSIVE Pow2(_)
Pow2(n) == IF n <= 0 THEN 1 ELSE 2 * Pow2(n - 1)

\* variant of Backoff with the exponent of query_public for both
Backoff_SameExponent(k, j) == Pow2(j)

\* the backoff of retry j: sleep(2 ** i) or sleep(2 ** (i + 1))
Backoff(k, j) == IF k = "public" THEN Pow2(j) ELSE Pow2(j + 1)

\* variants of LoopDone: a loop of one iteration, of one iteration too many,
\* and a loop that is over only after twice the iterations
LoopDone_AfterOne(j) == j + 1 >= 1
LoopDone_OneMore(j) == j + 1 >= num_retries + 1
LoopDone_Twice(j) == j + 1 >= 2 * num_retries

\* the retry loop is over after iteration j
LoopDone(j) == j + 1 >= num_retries

\* ------------------------------------------------------------------------
\* RawKrakenExAPI.nonce and the private requests of one client.  The clock
\* is read in ticks of half a millisecond, so that the truncation of
\* int(seconds * 1000) to whole milliseconds shows.

TicksPerMs == 2
TicksPerSecond == 1000 * TicksPerMs

\* nonce(): int((time() + NONCE_OFFSET) * 1000) at clock reading c
nonce(c) == c \div TicksPerMs

\* a client that has sent no request, at some clock reading
NonceInit(starts) ==
    /\ nclock \in starts
    /\ npc = "idle"
    /\ ni = 0 - 1
    /\ nsent = <<>>

\* query_private up to the transport call: data["nonce"] = self.nonce(), the
\* request is signed and sent
NSign ==
    /\ npc \in {"idle", "retry"}
    /\ Len(nsent) < MaxSigned
    /\ nsent' = Append(nsent, nonce(nclock))
    /\ ni' = IF npc = "idle" THEN 0 - 1 ELSE ni
    /\ npc' = "transport"
    /\ UNCHANGED nclock
    /\ UNCHANGED budgetVars
    /\ UNCHANGED clientVars
    /\ UNCHANGED limiterVars
    /\ UNCHANGED registryVars
    /\ UNCHANGED threadVars
    /\ UNCHANGED gatherVars

\* the request takes dt ticks and is answered; on the remote rate-limit
\* error _query_raw sleeps one second before it re-raises
NTransport ==
    \E dt \in 1..MaxTicks, resp \in {"ok", "EAPI:Rate limit exceeded"} :
        /\ npc = "transport"
        /\ IF RawQueryRaw(resp) = "APIRateLimitExceeded"
           THEN /\ nclock' = nclock + dt + 1 * TicksPerSecond
                /\ npc' = "handler"
           ELSE /\ nclock' = nclock + dt
                /\ npc' = "idle"
        /\ UNCHANGED <<ni, nsent>>
        /\ UNCHANGED budgetVars
        /\ UNCHANGED clientVars
        /\ UNCHANGED limiterVars
        /\ UNCHANGED registryVars
        /\ UNCHANGED threadVars
        /\ UNCHANGED gatherVars

\* the except block of query_private: give up, or sleep(2 ** (i + 1)) and
\* call query_private again
NHandler ==
    /\ npc = "handler"
    /\ IF ni >= 0 /\ LoopDone(ni)
       THEN /\ npc' = "idle"
            /\ UNCHANGED <<nclock, ni>>
       ELSE /\ ni' = ni + 1
            /\ nclock' = nclock + Backoff("private", ni + 1) * TicksPerSecond
            /\ npc' = "retry"
    /\ UNCHANGED nsent
    /\ UNCHANGED budgetVars
    /\ UNCHANGED clientVars
    /\ UNCHANGED limiterVars
    /\ UNCHANGED registryVars
    /\ UNCHANGED threadVars
    /\ UNCHANGED gatherVars

NonceNext == NSign \/ NTransport \/ NHandler

\* ------------------------------------------------------------------------
\* The rate-limited client as a state machine

Event(e, o, n) == [ev |-> e, out |-> o, n |-> n]
NoResult == [kind |-> "none", what |-> "", val |-> 0]
Raise(e) == [kind |-> "raise", what |-> e, val |-> 0]
Return(v) == [kind |-> "return", what |-> "", val |-> v]

\* the transport calls of the trace, in order
Calls(tr) == SelectSeq(tr, LAMBDA e : e.ev = "call")
Marks(tr) == SelectSeq(tr, LAMBDA e : e.ev = "mark")
Gates(tr) == SelectSeq(tr, LAMBDA e : e.ev = "gate")

\* a client right after RawCallRateLimitedKrakenExAPI(key, secret, tier)
ClientInit(tiers, keys) ==
    /\ tier \in tiers
    /\ hasKey \in keys
    /\ crl = NewCallRateLimiter(tier)
    /\ pc = "idle"
    /\ kind = "public"
    /\ method = ""
    /\ i = 0 - 1
    /\ trace = <<>>
    /\ result = NoResult
    /\ crl0 = crl
    /\ queries = 0

\* the client in every configuration, next to one budget that is not used
Init ==
    /\ ClientInit(Tiers, BOOLEAN)
    /\ BudgetInit({<<1 * Scale, 1 * Scale, 1 * Scale>>})
    /\ LimiterInit({"Starter"})
    /\ RegistryInit({"Currency"})
    /\ ThreadInit({<<1 * Scale, 1 * Scale, 1 * Scale>>})
    /\ GatherInit({0}, {TRUE})
    /\ NonceInit({0})

\* one budget in every configuration, next to a client that is not used
InitBudget ==
    /\ BudgetInit(BudgetConfigs)
    /\ ClientInit({"Starter"}, {FALSE})
    /\ LimiterInit({"Starter"})
    /\ RegistryInit({"Currency"})
    /\ ThreadInit({<<1 * Scale, 1 * Scale, 1 * Scale>>})
    /\ GatherInit({0}, {TRUE})
    /\ NonceInit({0})

\* one limiter, next to a client and a budget that are not used
InitLimiter ==
    /\ LimiterInit(Tiers)
    /\ ClientInit({"Starter"}, {FALSE})
    /\ BudgetInit({<<1 * Scale, 1 * Scale, 1 * Scale>>})
    /\ RegistryInit({"Currency"})
    /\ ThreadInit({<<1 * Scale, 1 * Scale, 1 * Scale>>})
    /\ GatherInit({0}, {TRUE})
    /\ NonceInit({0})

\* the caller calls query_public(m) or query_private(m)
Query ==
    \E k \in {"public", "private"}, m \in Methods :
        LET e == Precheck(k, m, hasKey)
        IN  /\ pc \in {"idle", "paused"}
            /\ queries < MaxQueries
            /\ queries' = queries + 1
            /\ kind' = k
            /\ method' = m
            /\ i' = 0 - 1
            /\ trace' = <<>>
            /\ crl0' = crl
            /\ pc' = IF e = "ok" THEN "gate" ELSE "done"
            /\ result' = IF e = "ok" THEN NoResult ELSE Raise(e)
            /\ UNCHANGED <<tier, hasKey, crl>>
            /\ UNCHANGED budgetVars
            /\ UNCHANGED limiterVars
            /\ UNCHANGED registryVars
            /\ UNCHANGED threadVars
            /\ UNCHANGED gatherVars
            /\ UNCHANGED nonceVars

\* RawCallRateLimitedKrakenExAPI._query_raw up to the transport call:
\* self.__crl.check_call(method, wait=True)
Gate ==
    /\ pc = "gate"
    /\ \E r \in {check_call_wait(crl, method)} :
        /\ crl' = r.crl
        /\ IF r.err
           THEN /\ pc' = "done"
                /\ result' = Raise("ZeroDivisionError")
                /\ UNCHANGED trace
           ELSE /\ pc' = "transport"
                /\ trace' = trace \o <<Event("gate", BudgetOf(method),
                                             CostOrDefault(crl[BudgetOf(method)],
                                                           CostOf(method))),
                                       Event("sleep", "gate", r.slept)>>
                /\ UNCHANGED result
    /\ UNCHANGED <<tier, hasKey, kind, method, i, crl0, queries>>
    /\ UNCHANGED budgetVars
    /\ UNCHANGED limiterVars
    /\ UNCHANGED registryVars
    /\ UNCHANGED threadVars
    /\ UNCHANGED gatherVars
    /\ UNCHANGED nonceVars

\* variant of Transport that re-raises the rate-limit error without
\* set_exceeded
Transport_NoMark ==
    \E resp \in Responses :
        LET e == RawQueryRaw(resp)
            n == Len(Calls(trace)) + 1
        IN  /\ pc = "transport"
            /\ IF e = "return"
               THEN /\ pc' = "done"
                    /\ result' = Return(n)
                    /\ trace' = Append(trace, Event("call", resp, n))
                    /\ UNCHANGED crl
               ELSE IF e = "APIRateLimitExceeded"
               THEN /\ pc' = "handler"
                    /\ trace' = trace \o <<Event("call", resp, n),
                                           Event("sleep", "raw", 1)>>
                    /\ crl' = LimiterElapsed(crl, 1)
                    /\ UNCHANGED result
               ELSE /\ pc' = "done"
                    /\ result' = Raise(e)
                    /\ trace' = Append(trace, Event("call", resp, n))
                    /\ UNCHANGED crl
            /\ UNCHANGED <<tier, hasKey, kind, method, i, crl0, queries>>
            /\ UNCHANGED budgetVars
            /\ UNCHANGED limiterVars
            /\ UNCHANGED registryVars
            /\ UNCHANGED threadVars
            /\ UNCHANGED gatherVars
            /\ UNCHANGED nonceVars

\* super()._query_raw(...) and the except block of the overriding _query_raw
Transport ==
    \E resp \in Responses :
        LET e == RawQueryRaw(resp)
            n == Len(Calls(trace)) + 1
        IN  /\ pc = "transport"
            /\ IF e = "return"
               THEN /\ pc' = "done"
                    /\ result' = Return(n)
                    /\ trace' = Append(trace, Event("call", resp, n))
                    /\ UNCHANGED crl
               ELSE IF e = "APIRateLimitExceeded"
               THEN /\ pc' = "handler"
                    /\ trace' = trace \o <<Event("call", resp, n),
                                           Event("sleep", "raw", 1),
                                           Event("mark", BudgetOf(method), 0)>>
                    /\ crl' = limiter_set_exceeded(LimiterElapsed(crl, 1), method)
                    /\ UNCHANGED result
               ELSE /\ pc' = "done"
                    /\ result' = Raise(e)
                    /\ trace' = Append(trace, Event("call", resp, n))
                    /\ UNCHANGED crl
            /\ UNCHANGED <<tier, hasKey, kind, method, i, crl0, queries>>
            /\ UNCHANGED budgetVars
            /\ UNCHANGED limiterVars
            /\ UNCHANGED registryVars
            /\ UNCHANGED threadVars
            /\ UNCHANGED gatherVars
            /\ UNCHANGED nonceVars

\* variant of Handler whose retry calls the transport without the gate
Handler_RetryPastGate ==
    LET j == i + 1
    IN  /\ pc = "handler"
        /\ IF (i = 0 - 1 /\ ~MayRetry(kind, method)) \/ (i >= 0 /\ LoopDone(i))
           THEN /\ pc' = "done"
                /\ result' = Raise("APIRateLimitExceeded")
                /\ UNCHANGED <<i, trace, crl>>
           ELSE /\ i' = j
                /\ trace' = trace \o <<Event("sleep", "backoff", Backoff(kind, j)),
                                       Event("mark", BudgetOf(method), 0)>>
                /\ crl' = limiter_set_exceeded(LimiterElapsed(crl, Backoff(kind, j)), method)
                /\ pc' = "transport"
                /\ result' = NoResult
        /\ UNCHANGED <<tier, hasKey, kind, method, crl0, queries>>
        /\ UNCHANGED budgetVars
        /\ UNCHANGED limiterVars
        /\ UNCHANGED registryVars
        /\ UNCHANGED threadVars
        /\ UNCHANGED gatherVars
        /\ UNCHANGED nonceVars

\* the except APIRateLimitExceeded block of query_public / query_private:
\* give up, or sleep, mark the budget exceeded and query again
Handler ==
    LET j == i + 1
        e == Precheck(kind, method, hasKey)
    IN  /\ pc = "handler"
        /\ IF (i = 0 - 1 /\ ~MayRetry(kind, method)) \/ (i >= 0 /\ LoopDone(i))
           THEN /\ pc' = "done"
                /\ result' = Raise("APIRateLimitExceeded")
                /\ UNCHANGED <<i, trace, crl>>
           ELSE /\ i' = j
                /\ trace' = trace \o <<Event("sleep", "backoff", Backoff(kind, j)),
                                       Event("mark", BudgetOf(method), 0)>>
                /\ crl' = limiter_set_exceeded(LimiterElapsed(crl, Backoff(kind, j)), method)
                /\ pc' = IF e = "ok" THEN "gate" ELSE "done"
                /\ result' = IF e = "ok" THEN NoResult ELSE Raise(e)
        /\ UNCHANGED <<tier, hasKey, kind, method, crl0, queries>>
        /\ UNCHANGED budgetVars
        /\ UNCHANGED limiterVars
        /\ UNCHANGED registryVars
        /\ UNCHANGED threadVars
        /\ UNCHANGED gatherVars
        /\ UNCHANGED nonceVars

\* the query has returned or raised; the caller goes on
Finish ==
    /\ pc = "done"
    /\ pc' = "idle"
    /\ result' = NoResult
    /\ trace' = <<>>
    /\ method' = ""
    /\ kind' = "public"
    /\ i' = 0 - 1
    /\ crl0' = crl
    /\ UNCHANGED <<tier, hasKey, crl, queries>>
    /\ UNCHANGED budgetVars
    /\ UNCHANGED limiterVars
    /\ UNCHANGED registryVars
    /\ UNCHANGED threadVars
    /\ UNCHANGED gatherVars
    /\ UNCHANGED nonceVars

\* the caller pauses between two queries
Elapse ==
    \E dt \in 1..MaxIdle :
        /\ pc = "idle"
        /\ pc' = "paused"
        /\ crl' = LimiterElapsed(crl, dt)
        /\ crl0' = crl'
        /\ UNCHANGED <<tier, hasKey, kind, method, i, trace, result, queries>>
        /\ UNCHANGED budgetVars
        /\ UNCHANGED limiterVars
        /\ UNCHANGED registryVars
        /\ UNCHANGED threadVars
        /\ UNCHANGED gatherVars
        /\ UNCHANGED nonceVars

Next == Query \/ Gate \/ Transport \/ Handler \/ Finish \/ Elapse

Spec == Init /\ [][Next]_vars

BudgetNext ==
    BElapse \/ BDecay \/ BCheck \/ BCheckAndWait \/ BSetExceeded \/ BSleepTimeToCall

SpecBudget == InitBudget /\ [][BudgetNext]_vars

LimiterNext == LCheckCallWait \/ LCheckCallNoWait \/ LSetExceeded \/ LElapse

SpecLimiter == InitLimiter /\ [][LimiterNext]_vars

RegistryNext == Construct \/ Find

\* the registry of either class, next to a client, a budget and a limiter
\* that are not used
InitRegistry ==
    /\ RegistryInit({"Currency", "CurrencyPair"})
    /\ ClientInit({"Starter"}, {FALSE})
    /\ BudgetInit({<<1 * Scale, 1 * Scale, 1 * Scale>>})
    /\ LimiterInit({"Starter"})
    /\ ThreadInit({<<1 * Scale, 1 * Scale, 1 * Scale>>})
    /\ GatherInit({0}, {TRUE})
    /\ NonceInit({0})

SpecRegistry == InitRegistry /\ [][RegistryNext]_vars

\* two threads on one budget, next to a client, a budget, a limiter and a
\* registry that are not used
InitThreads ==
    /\ ThreadInit({<<1 * Scale, 1 * Scale, 1 * Scale>>, <<10 * Scale, 5 * Scale, 2 * Scale>>})
    /\ ClientInit({"Starter"}, {FALSE})
    /\ BudgetInit({<<1 * Scale, 1 * Scale, 1 * Scale>>})
    /\ LimiterInit({"Starter"})
    /\ RegistryInit({"Currency"})
    /\ GatherInit({0}, {TRUE})
    /\ NonceInit({0})

SpecThreads == InitThreads /\ [][ThreadNext]_vars

\* one gather_* call against every server, next to the other parts, not used
InitGather ==
    /\ GatherInit(0..MaxEntries, BOOLEAN)
    /\ ClientInit({"Starter"}, {FALSE})
    /\ BudgetInit({<<1 * Scale, 1 * Scale, 1 * Scale>>})
    /\ LimiterInit({"Starter"})
    /\ RegistryInit({"Currency"})
    /\ ThreadInit({<<1 * Scale, 1 * Scale, 1 * Scale>>})
    /\ NonceInit({0})

\* the caller runs the loop of gather_* on; the server answers every request
SpecGather ==
    /\ InitGather /\ [][GatherNext]_vars
    /\ WF_vars(GatherWhile) /\ WF_vars(GatherPage) /\ WF_vars(GatherReturn)

\* one client at either half of a millisecond, next to the other parts
InitNonce ==
    /\ NonceInit({0, 1})
    /\ ClientInit({"Starter"}, {FALSE})
    /\ BudgetInit({<<1 * Scale, 1 * Scale, 1 * Scale>>})
    /\ LimiterInit({"Starter"})
    /\ RegistryInit({"Currency"})
    /\ ThreadInit({<<1 * Scale, 1 * Scale, 1 * Scale>>})
    /\ GatherInit({0}, {TRUE})

SpecNonce == InitNonce /\ [][NonceNext]_vars

\* a query runs as one sequence of steps of one thread; the transport answers
LiveSpec == Spec /\ WF_vars(Gate) /\ WF_vars(Transport) /\ WF_vars(Handler)

\* ------------------------------------------------------------------------
\* Properties of the rate-limited client

RateLimit == "EAPI:Rate limit exceeded"
Active == {"gate", "transport", "handler"}
InQuery == pc \in Active \cup {"done"}
CountersUnchanged ==
    /\ crl.public.counter = crl0.public.counter
    /\ crl.private.counter = crl0.private.counter

\* C1: query_public with a name that is no public endpoint, and query_private
\* with a name that is no private endpoint, raise NoSuchAPIMethod without a
\* transport call and without a change to the counter of either budget.
C1_UnknownMethod ==
    /\ (InQuery /\ kind = "public" /\ method \notin API_METHODS_PUBLIC)
         => pc = "done" /\ result = Raise("NoSuchAPIMethod") /\ trace = <<>>
              /\ CountersUnchanged
    /\ (InQuery /\ kind = "private" /\ method \notin API_METHODS_PRIVATE)
         => pc = "done" /\ result = Raise("NoSuchAPIMethod") /\ trace = <<>>
              /\ CountersUnchanged

C1_Witness ==
    /\ pc = "done" /\ result = Raise("NoSuchAPIMethod")
    /\ kind = "private" /\ method = "Time"
    /\ crl0.public.counter > 0

\* C2: a remote rate-limit error on a private endpoint of the no-retry set
\* is raised to the caller after exactly one transport call, without a retry.
C2_NoRetryPropagates ==
    (kind = "private" /\ method \in API_METHODS_NO_RETRY /\ Calls(trace) # <<>>
        /\ Calls(trace)[1].out = RateLimit)
      => /\ Len(Calls(trace)) = 1
         /\ i = 0 - 1
         /\ pc \in {"handler", "done"}
         /\ pc = "done" => result = Raise("APIRateLimitExceeded")

C2_Witness ==
    /\ pc = "done" /\ kind = "private" /\ method = "Withdraw"
    /\ result = Raise("APIRateLimitExceeded")
    /\ Len(Calls(trace)) = 1

\* C3: when the first two transport calls of a query_private for a retryable
\* endpoint raise the remote rate-limit error and the third succeeds, the
\* query makes exactly three transport calls and returns the third result.
C3_ThirdAttemptSucceeds ==
    (kind = "private" /\ method \notin API_METHODS_NO_RETRY /\ Len(Calls(trace)) >= 2
        /\ Calls(trace)[1].out = RateLimit /\ Calls(trace)[2].out = RateLimit)
      => /\ pc = "done" => Len(Calls(trace)) >= 3
         /\ (Len(Calls(trace)) >= 3 /\ Calls(trace)[3].out = "ok")
              => pc = "done" /\ Len(Calls(trace)) = 3 /\ result = Return(3)

C3_Witness ==
    /\ pc = "done" /\ kind = "private" /\ method = "Ledgers"
    /\ Len(Calls(trace)) = 3
    /\ Calls(trace)[1].out = RateLimit /\ Calls(trace)[2].out = RateLimit
    /\ Calls(trace)[3].out = "ok"
    /\ result = Return(3)

\* every transport call of the query raised the remote rate-limit error
AllRateLimited ==
    /\ Calls(trace) # <<>>
    /\ \A n \in 1..Len(Calls(trace)) : Calls(trace)[n].out = RateLimit

\* C4 as claimed: when every transport call raises the remote rate-limit
\* error, a query for a retryable endpoint that ends by raising the
\* rate-limit error has made at most num_retries (3) transport calls.
C4_AtMostThreeCalls ==
    (pc = "done" /\ MayRetry(kind, method) /\ AllRateLimited
        /\ result = Raise("APIRateLimitExceeded"))
      => Len(Calls(trace)) <= num_retries

\* C4 as amended: such a query makes at most 1 + num_retries (4) transport
\* calls and never returns a result: it raises the rate-limit error after the
\* fourth call, or earlier the ZeroDivisionError of a gate on a budget that
\* does not decay.
C4_AtMostFourCalls ==
    (pc = "done" /\ MayRetry(kind, method) /\ AllRateLimited)
      => /\ Len(Calls(trace)) <= num_retries + 1
         /\ \/ result = Raise("APIRateLimitExceeded")
                /\ Len(Calls(trace)) = num_retries + 1
            \/ result = Raise("ZeroDivisionError")
                /\ crl[BudgetOf(method)].decay = 0

C4_Witness ==
    /\ pc = "done" /\ kind = "public" /\ AllRateLimited
    /\ Len(Calls(trace)) = num_retries + 1
    /\ result = Raise("APIRateLimitExceeded")

\* C5: every query through the rate-limited client terminates, for every
\* tier and whatever the transport answers: it returns a result or raises,
\* within the bounded number of retries.
C5_Terminates ==
    /\ (pc \in Active) ~> (pc = "done")
    /\ [](pc \in Active => i < num_retries /\ Len(Calls(trace)) <= num_retries + 1)
    /\ [](pc = "done" => result.kind \in {"return", "raise"})

C5_Witness ==
    /\ pc = "done" /\ tier = "None" /\ kind = "private"
    /\ Len(Calls(trace)) = 1 /\ result.kind = "raise"

\* the server answered with an error other than the rate-limit error
OtherError(resp) == resp \notin {"ok", RateLimit}

\* C6: a transport error other than the remote rate-limit error ends the
\* query with that error; when it is the answer to the first transport call,
\* the query made one transport call, no retry, and marked no budget
\* exceeded: the budgets are as the gate of that call left them.
C6_OtherErrorsPassThrough ==
    /\ \A n \in 1..Len(trace) :
          (trace[n].ev = "call" /\ OtherError(trace[n].out))
            => n = Len(trace) /\ pc = "done"
                 /\ result.kind = "raise"
                 /\ result.what \in {"APIArgumentUsageError", "APIPermissionDenied",
                                     "KrakenExAPIError"}
    /\ (Calls(trace) # <<>> /\ OtherError(Calls(trace)[1].out))
          => /\ Len(Calls(trace)) = 1
             /\ i = 0 - 1
             /\ Marks(trace) = <<>>
             /\ crl = check_call_wait(crl0, method).crl

C6_Witness ==
    /\ pc = "done" /\ result = Raise("APIPermissionDenied")
    /\ kind = "private" /\ method = "Ledgers" /\ tier = "Starter"
    /\ Len(Calls(trace)) = 1
    /\ crl0.private.counter > 0

\* C7: query_private for a private endpoint without key or secret raises
\* NoPrivateKey before any gate and any transport call; both budgets are
\* left as they were.
C7_NoPrivateKey ==
    (InQuery /\ kind = "private" /\ method \in API_METHODS_PRIVATE /\ ~hasKey)
      => pc = "done" /\ result = Raise("NoPrivateKey") /\ trace = <<>> /\ crl = crl0

C7_Witness ==
    /\ pc = "done" /\ result = Raise("NoPrivateKey")
    /\ kind = "private" /\ method = "Ledgers" /\ ~hasKey
    /\ crl0.public.counter > 0

\* ------------------------------------------------------------------------
\* Properties of one budget

\* the counter of budget b once the time b.since has been decayed off,
\* written out from the formula of decay()
DecayedValue(b) ==
    IF b.counter = INF THEN INF
    ELSE IF b.counter - b.decay * b.since > 0 THEN b.counter - b.decay * b.since
    ELSE 0

\* C8: after any sequence of decay, check, check_and_wait and set_exceeded
\* with non-negative costs, the counter of a budget is at least 0.
C8_CounterNonNegative == bud.counter # NAN /\ bud.counter >= 0

C8_Witness ==
    /\ last.op = "decay"
    /\ pre.counter > 0 /\ pre.counter < pre.decay * pre.since
    /\ bud.counter = 0

\* C9: check(cost) decays the counter and admits exactly when the decayed
\* counter plus the cost is at most the limit; admitted, it returns true and
\* the counter is the decayed value plus the cost, which is at most the
\* limit; denied, it returns false and the counter is the decayed value.
C9_CheckAdmitsIffRoom ==
    last.op = "check"
      => /\ last.ret = FLe(FAdd(DecayedValue(pre), last.cost), pre.limit)
         /\ last.ret => /\ bud.counter = FAdd(DecayedValue(pre), last.cost)
                        /\ FLe(bud.counter, bud.limit)
         /\ ~last.ret => bud.counter = DecayedValue(pre)

C9_Witness ==
    /\ last.op = "check" /\ ~last.ret
    /\ pre.since > 0 /\ bud.counter < pre.counter /\ bud.counter > 0
    /\ last.cost > 0

\* C10: when check(cost) was denied on a budget with cost <= limit and a
\* positive decay, and the caller then sleeps time_to_call(cost) seconds, the
\* next check(cost) is admitted.
C10_AdmittedAfterWait ==
    (last.op = "check" /\ last.waited /\ last.cost <= bud.limit /\ bud.decay > 0)
      => last.ret

C10_Witness ==
    /\ last.op = "check" /\ last.waited /\ last.ret
    /\ bud.limit = 10 * Scale /\ bud.decay = 250 /\ last.cost = 2 * Scale
    /\ pre.counter > 0

\* the sleep of the last check_and_wait lasted exactly the seconds asked
SleptExactly == last.slept * last.den = last.num

HasTier(l, t) ==
    /\ l.private.limit = reset_account_crl(t).limit
    /\ l.private.cost = reset_account_crl(t).cost
    /\ l.private.decay = reset_account_crl(t).decay

\* all calls made on the new limiter were blocking check_call(m), back to
\* back, and the last of them has just returned
BurstOf(m) ==
    /\ calls >= 1 /\ streak = calls
    /\ lcall.op = "check_call" /\ lcall.wait /\ lcall.m = m /\ ~lcall.idle

\* the waiting time of the last call is (counter + cost - limit) / decay
\* for the decayed counter of budget b at the call when that is positive,
\* and 0 otherwise
WaitedFor(b, cost) ==
    IF DecayedValue(b) + cost > b.limit
    THEN /\ lcall.num = DecayedValue(b) + cost - b.limit
         /\ lcall.den = b.decay
         /\ lcall.slept * lcall.den >= lcall.num
         /\ (lcall.slept - 1) * lcall.den < lcall.num
    ELSE lcall.num = 0 /\ lcall.slept = 0

\* C12 as claimed: with tier Starter, during up to fifteen back-to-back
\* blocking gate calls for Ledgers (cost 2) the stored counter of the private
\* budget never exceeds the limit of 15, and every call waits
\* (counter + 2 - 15) / 0.33 seconds when that is positive.
C12_StoredCounterWithinCeiling ==
    (HasTier(lim, "Starter") /\ BurstOf("Ledgers"))
      => /\ lim.private.counter <= lim.private.limit
         /\ WaitedFor(lim0.private, 2 * Scale)

\* C12 as amended: during such a run the counter decayed up to the return
\* of each call never exceeds the limit, while the stored counter is at most
\* the limit plus the cost of 2; every call waits (counter + 2 - 15) / 0.33
\* seconds for the decayed counter at its entry when that is positive.
C12_DecayedCounterWithinCeiling ==
    (HasTier(lim, "Starter") /\ BurstOf("Ledgers"))
      => /\ DecayedValue(lim.private) <= lim.private.limit
         /\ lim.private.counter <= lim.private.limit + 2 * Scale
         /\ lim.private.counter = DecayedValue(lim0.private) + 2 * Scale
         /\ WaitedFor(lim0.private, 2 * Scale)

C12_Witness ==
    /\ HasTier(lim, "Starter") /\ BurstOf("Ledgers")
    /\ calls = 15
    /\ lcall.slept > 0 /\ lim0.private.since > 0
    /\ lim.private.counter > lim.private.limit

\* ------------------------------------------------------------------------
\* More properties of one budget

\* a waiting time as a fraction, for comparisons
Fraction(n, d) == [num |-> n, den |-> d]
\* the fraction a is less than the fraction b (positive denominators)
FracLess(a, b) == a.num * b.den < b.num * a.den

\* time_to_call(cost) of the budget as it is dt seconds from now, after a
\* decay() at that time
LaterTimeToCall(b, dt, cost) == time_to_call(decay(Elapsed(b, dt)), cost)

\* C13: time_to_call(cost) returns 0 when counter + cost <= limit and
\* (counter + cost - limit) / decay otherwise; for a counter above the
\* limit time_to_call(0) is (counter - limit) / decay, and of two later
\* decays the one after more time gives the strictly smaller value as long
\* as the counter is still above the limit.
C13_TimeToCall ==
    /\ \A c \in CallCosts \ {None} :
          IF FLe(FAdd(bud.counter, c), bud.limit)
          THEN time_to_call(bud, c) = [err |-> FALSE, num |-> 0, den |-> 1]
          ELSE /\ ~time_to_call(bud, c).err
               /\ time_to_call(bud, c).num = bud.counter + c - bud.limit
               /\ time_to_call(bud, c).den = bud.decay
    /\ \A t1, t2 \in 0..(MaxIdle + 1) :
          (t1 < t2 /\ ~FLe(decay(Elapsed(bud, t1)).counter, bud.limit))
            => /\ ~LaterTimeToCall(bud, t1, 0).err
               /\ ~LaterTimeToCall(bud, t2, 0).err
               /\ FracLess(LaterTimeToCall(bud, t2, 0), LaterTimeToCall(bud, t1, 0))

\* the budget without limit, cost and decay that a limiter without tier uses
\* for private endpoints
Unlimited(b) == b.limit = INF /\ b.decay = 0

\* C13 holds of every budget that has a decay
C13_HoldsWithDecay == ~Unlimited(bud) => C13_TimeToCall

\* C14: set_exceeded sets the counter to limit + 3 * decay and the time of
\* the last decay to now, whatever the counter was before; on a budget with
\* positive decay no check, whatever its cost, is admitted less than 3
\* seconds later, and time_to_call(0) right after set_exceeded is exactly 3
\* seconds.
C14_SetExceededCoolDown ==
    /\ last.op = "set_exceeded"
          => /\ bud.counter = FAdd(pre.limit, 3 * pre.decay)
             /\ ~last.idle => bud.since = 0
             /\ (~last.idle /\ bud.decay > 0)
                  => /\ ~time_to_call(bud, 0).err
                     /\ time_to_call(bud, 0).num = 3 * time_to_call(bud, 0).den
    /\ (last.op = "check" /\ mon.cool # 0 - 1 /\ bud.decay > 0) => ~last.ret

C14_Witness ==
    /\ last.op = "check" /\ ~last.ret /\ last.cost = 0
    /\ mon.cool = 2 /\ bud.decay = 250
    /\ bud.counter = bud.limit + bud.decay

\* ------------------------------------------------------------------------
\* More properties of a limiter on its own

\* the last call was a check_call for a public endpoint that was admitted
AdmittedPublic ==
    /\ lcall.op = "check_call" /\ lcall.ret
    /\ BudgetOf(lcall.m) = "public"

InvalidNonce == "EAPI:Invalid nonce"

\* C16: a response whose error list holds the invalid-nonce message ends
\* the query with the error APIInvalidNonce, not with the generic
\* KrakenExAPIError, and the query is not retried after it.
C16_InvalidNonceTyped ==
    \A n \in 1..Len(trace) :
        (trace[n].ev = "call" /\ trace[n].out = InvalidNonce)
          => /\ n = Len(trace)
             /\ pc = "done"
             /\ result = Raise("APIInvalidNonce")

\* ------------------------------------------------------------------------
\* Properties of the registries of Currency and CurrencyPair

\* C17: every key of a registry is the upper-cased symbol or alternative
\* name of the one instance it maps to; a constructor call whose symbol is
\* already registered raises AssertionError; find, which ignores case,
\* returns for every key the first instance registered for it, the same for
\* the symbol and the alternative name of an instance, and raises KeyError
\* for a name that is not registered.
C17_RegistrySingletons ==
    /\ \A k \in Keys :
          /\ registry[k] # NoInstance
                => k \in {upper(registry[k].symbol), upper(registry[k].name)}
          /\ first[k] = registry[k].id
    /\ (rop.op = "new" /\ rop.hadSymbol) => rop.err = "AssertionError"
    /\ (rop.op = "new" /\ rop.err = "")
          => /\ registry[upper(rop.symbol)].id = rop.id
             /\ registry[upper(rop.name)].id = rop.id
             /\ \A s \in RawNames :
                   upper(s) \in {upper(rop.symbol), upper(rop.name)}
                     => find(registry, s).ret.id = rop.id
    /\ rop.op = "find"
          => IF upper(rop.symbol) \in Keys /\ first[upper(rop.symbol)] # 0
             THEN rop.err = "" /\ rop.id = first[upper(rop.symbol)]
             ELSE rop.err = "KeyError" /\ rop.id = 0

C17_Witness ==
    /\ rop.op = "find" /\ rop.symbol = "sym" /\ rop.id = 1 /\ rop.err = ""
    /\ made = 3
    /\ registry["SYM"].symbol = "Sym" /\ registry["NAM"].id = 1
    /\ registry["ZSYM2"].id = 2

\* position n of the trace is a transport call made as a retry
RetriedCallAt(n) == trace[n].ev = "call" /\ trace[n].n >= 2

\* the position of the last mark (set_exceeded) before position n
LastMarkBefore(n) ==
    CHOOSE m \in 1..(n - 1) :
        /\ trace[m].ev = "mark"
        /\ \A k \in (m + 1)..(n - 1) : trace[k].ev # "mark"

\* C18 as claimed: a retry calls the transport without the gate: between
\* the set_exceeded of the retry step and the retried transport call there
\* is no blocking gate call.
C18_RetryBypassesGate ==
    \A n \in 1..Len(trace) :
        RetriedCallAt(n)
          => \A k \in (LastMarkBefore(n) + 1)..(n - 1) : trace[k].ev # "gate"

\* C18 as amended: a retry goes through the gate: between the set_exceeded
\* of the retry step and the retried transport call there is exactly one
\* blocking gate call, on the budget just marked exceeded, and it waits the
\* cool-down of 3 seconds plus cost / decay; on the budget without decay
\* that gate raises ZeroDivisionError and no retried call is made.
C18_RetryPassesGate ==
    /\ \A n \in 1..Len(trace) :
          RetriedCallAt(n)
            => /\ n >= 4
               /\ trace[n - 3].ev = "mark"
               /\ trace[n - 2].ev = "gate"
               /\ trace[n - 2].out = trace[n - 3].out
               /\ trace[n - 1].ev = "sleep" /\ trace[n - 1].out = "gate"
               /\ crl[trace[n - 2].out].decay > 0
               /\ trace[n - 1].n * crl[trace[n - 2].out].decay
                     >= 3 * crl[trace[n - 2].out].decay + trace[n - 2].n
    /\ (i >= 0 /\ pc \in {"transport", "handler", "done"}
          /\ crl[BudgetOf(method)].decay = 0)
          => /\ pc = "done" /\ result = Raise("ZeroDivisionError")
             /\ Len(Calls(trace)) = 1

C18_Witness ==
    /\ pc = "done" /\ result = Return(2) /\ kind = "private"
    /\ method = "Ledgers" /\ tier = "Starter"
    /\ trace[Len(trace) - 1] = Event("sleep", "gate", 10)

\* the class of budget an endpoint belongs to, from the endpoint tables
ClassOf(m) == IF m \in API_METHODS_PRIVATE THEN "private" ELSE "public"

\* C19: every transport call of the rate-limited client, a first attempt
\* or a retry, comes right after a blocking gate call for the endpoint of
\* the query on the budget of the endpoint's class, charged with the cost of
\* the endpoint (the default cost of the public budget for a public one).
C19_EveryCallGated ==
    /\ \A n \in 1..Len(trace) :
          trace[n].ev = "call"
            => /\ n >= 3
               /\ trace[n - 2].ev = "gate"
               /\ trace[n - 2].out = ClassOf(method)
               /\ trace[n - 2].n = IF ClassOf(method) = "private"
                                    THEN get_cost(method)
                                    ELSE crl.public.cost
               /\ trace[n - 1].ev = "sleep" /\ trace[n - 1].out = "gate"
    /\ Len(Gates(trace)) >= Len(Calls(trace))
    /\ pc = "transport"
          => /\ Len(Gates(trace)) = Len(Calls(trace)) + 1
             /\ trace[Len(trace) - 1].ev = "gate"
             /\ FLe(trace[Len(trace) - 1].n, crl[ClassOf(method)].counter)

C19_Witness ==
    /\ pc = "done" /\ kind = "private" /\ method = "Ledgers" /\ tier = "Pro"
    /\ Len(Calls(trace)) = 3 /\ Len(Gates(trace)) = 3
    /\ Gates(trace)[3] = Event("gate", "private", 2 * Scale)

\* the backoff sleeps of the query so far, in order
Backoffs(tr) == SelectSeq(tr, LAMBDA e : e.ev = "sleep" /\ e.out = "backoff")

\* C20: the backoff sleeps of a query are, in this order, 1, 2 and 4
\* seconds for query_public and 2, 4 and 8 seconds for query_private, one
\* before each retry; a retryable query that gives up with the rate-limit
\* error has slept all three.
C20_BackoffDoubles ==
    /\ Len(Backoffs(trace)) <= 3
    /\ \A k \in 1..Len(Backoffs(trace)) :
          Backoffs(trace)[k].n = IF kind = "public" THEN <<1, 2, 4>>[k]
                                 ELSE <<2, 4, 8>>[k]
    /\ Len(Backoffs(trace)) = i + 1
    /\ (pc = "done" /\ result = Raise("APIRateLimitExceeded")
          /\ MayRetry(kind, method))
          => Len(Backoffs(trace)) = 3

C20_Witness ==
    /\ pc = "done" /\ result = Raise("APIRateLimitExceeded")
    /\ kind = "private" /\ method = "Balance"
    /\ Len(Backoffs(trace)) = 3 /\ Backoffs(trace)[3].n = 8

\* ------------------------------------------------------------------------
\* The marks of the rate-limited client

\* budget b is as set_exceeded leaves it
JustExceeded(b) == b.counter = FAdd(b.limit, 3 * b.decay) /\ b.since = 0

\* C21: every transport call that raises the remote rate-limit error is
\* followed, before the error reaches the except block of query_public or
\* query_private, by set_exceeded on the budget of the endpoint's class, for
\* a no-retry endpoint too; every retry is preceded by one more set_exceeded
\* on that budget, made after the backoff and before the gate of the retry.
C21_MarkedBeforeReraise ==
    /\ \A n \in 1..Len(trace) :
          (trace[n].ev = "call" /\ trace[n].out = RateLimit)
            => /\ Len(trace) >= n + 2
               /\ trace[n + 1] = Event("sleep", "raw", 1)
               /\ trace[n + 2] = Event("mark", ClassOf(method), 0)
    /\ pc = "handler" => JustExceeded(crl[ClassOf(method)])
    /\ (pc = "done" /\ result = Raise("APIRateLimitExceeded"))
          => JustExceeded(crl[ClassOf(method)])
    /\ \A n \in 1..Len(trace) :
          RetriedCallAt(n)
            => /\ n >= 6
               /\ trace[n - 3] = Event("mark", ClassOf(method), 0)
               /\ trace[n - 4].ev = "sleep" /\ trace[n - 4].out = "backoff"
               /\ trace[n - 5] = Event("mark", ClassOf(method), 0)
    /\ Len(Marks(trace)) = Len(Backoffs(trace))
          + Len(SelectSeq(trace, LAMBDA e : e.ev = "call" /\ e.out = RateLimit))

C21_Witness ==
    /\ pc = "handler" /\ kind = "private" /\ method = "Ledgers" /\ tier = "Starter"
    /\ i = 0 /\ Len(Calls(trace)) = 2 /\ Len(Marks(trace)) = 3
    /\ crl.private.counter = 15 * Scale + 99

\* ------------------------------------------------------------------------
\* The cost of a gate call

\* the cost of each endpoint as the table of costs states it, for a limiter l
TableCost(l, m) ==
    IF m \in {"Ledgers", "TradesHistory", "ClosedOrders"} THEN 2 * Scale
    ELSE IF m \in {"AddOrder", "CancelOrder"} THEN 0
    ELSE IF m \in API_METHODS_PRIVATE THEN 1 * Scale
    ELSE l.public.cost

\* C22: the cost check_call charges is a function of the endpoint alone: 2
\* for Ledgers, TradesHistory and ClosedOrders, 0 for AddOrder and
\* CancelOrder, 1 for every other private endpoint and the default cost of
\* the public budget, 1, for a public endpoint; an admitted call adds exactly
\* that cost to the decayed counter of its budget, a cost of 0 adds nothing
\* even when the default cost of the budget is 1, and a call that is not
\* admitted adds nothing.
C22_CostByEndpoint ==
    /\ lim.public.cost = 1 * Scale
    /\ \A m \in API_METHODS_PUBLIC \cup API_METHODS_PRIVATE :
          CostOrDefault(lim[BudgetOf(m)], CostOf(m)) = TableCost(lim, m)
    /\ (lcall.op = "check_call"
          /\ lcall.m \in API_METHODS_PUBLIC \cup API_METHODS_PRIVATE)
          => /\ lim[ClassOf(lcall.m)].counter =
                   FAdd(DecayedValue(lim0[ClassOf(lcall.m)]),
                        IF lcall.ret THEN TableCost(lim0, lcall.m) ELSE 0)
             /\ lim[OtherBudget(ClassOf(lcall.m))].counter =
                   lim0[OtherBudget(ClassOf(lcall.m))].counter

C22_Witness ==
    /\ lcall.op = "check_call" /\ lcall.m = "CancelOrder" /\ lcall.ret
    /\ HasTier(lim, "Starter") /\ lim.private.cost = 1 * Scale
    /\ lim0.private.counter = 2 * Scale /\ lim0.private.since = 0
    /\ lim.private.counter = 2 * Scale

\* ------------------------------------------------------------------------
\* Names that are no endpoint

\* the name is in the list of public or of private endpoints
IsEndpoint(m) == m \in API_METHODS_PUBLIC \cup API_METHODS_PRIVATE

\* C23: check_call and set_exceeded called with a name that is in neither
\* the public nor the private endpoint list fail with an error and leave
\* both budgets as they were; the name is not routed to a default class.
C23_UnknownNameRejected ==
    (lcall.op \in {"check_call", "set_exceeded"} /\ ~IsEndpoint(lcall.m))
      => /\ lcall.err
         /\ ~lcall.ret
         /\ lim.public.counter = lim0.public.counter
         /\ lim.private.counter = lim0.private.counter
         /\ ~lcall.idle => lim = lim0

\* ------------------------------------------------------------------------
\* The private budget of a client without tier

\* C24: on the private budget of a client without tier (limit inf, cost 0,
\* decay 0) time_to_call never divides by the decay, in every state the
\* client reaches and for the cost of every private endpoint, also after
\* set_exceeded has followed a remote rate-limit error; no gate call on that
\* budget raises ZeroDivisionError.
C24_NoDivisionByZero ==
    Unlimited(crl.private)
      => /\ \A m \in API_METHODS_PRIVATE :
               ~time_to_call(decay(crl.private), get_cost(m)).err
         /\ result # Raise("ZeroDivisionError")

\* ------------------------------------------------------------------------
\* How the stored counter of a budget moves

\* the step is the operation o on the budget, not a pause of the caller
BudgetOp(o) == ~last'.idle /\ last'.op = o

\* the step raises the stored counter only by an admission or set_exceeded
RisesByAdmissionOrMark ==
    bud'.counter > bud.counter
      => \/ BudgetOp("check") /\ last'.ret
         \/ BudgetOp("check_and_wait") /\ ~last'.err
         \/ BudgetOp("set_exceeded")

\* the step lowers the stored counter by the decay() of decay, check or
\* check_and_wait
FallsByDecay ==
    /\ BudgetOp("decay") \/ BudgetOp("check") \/ BudgetOp("check_and_wait")
    /\ DecayedValue(bud) < bud.counter
    /\ bud'.counter >= DecayedValue(bud)

\* C25 as claimed: in every step of a budget the stored counter rises only
\* by an admission of cost (a check that returns true, or check_and_wait) or
\* by set_exceeded, and falls only by decay; set_exceeded never lowers it.
C25_CounterMoves ==
    [][ /\ RisesByAdmissionOrMark
        /\ bud'.counter < bud.counter => FallsByDecay
        /\ BudgetOp("set_exceeded") => bud'.counter >= bud.counter ]_vars

\* C25 as amended: the stored counter rises only by an admission of cost or
\* by set_exceeded; it falls only by decay, or by a set_exceeded that
\* overwrites a stored counter above limit + 3 * decay, which check_and_wait
\* leaves behind; set_exceeded never lowers the counter decayed up to the
\* call.
C25_CounterMovesDecayed ==
    [][ /\ RisesByAdmissionOrMark
        /\ bud'.counter < bud.counter
              => \/ FallsByDecay
                 \/ /\ BudgetOp("set_exceeded")
                    /\ bud.counter > FAdd(bud.limit, 3 * bud.decay)
                    /\ bud.since > 0
        /\ BudgetOp("set_exceeded") => bud'.counter >= DecayedValue(bud) ]_vars

C25_Witness ==
    /\ last.op = "set_exceeded" /\ ~last.idle
    /\ bud.counter < pre.counter
    /\ bud.counter >= DecayedValue(pre)
    /\ pre.limit = 10 * Scale /\ pre.decay = 250

\* ------------------------------------------------------------------------
\* Threads that share one budget

\* thread t has seen room for its cost and has not yet returned
Admitting(t) == th[t].pc \in {"add_read", "add_store"}

\* C26: when threads share one budget, decay-then-admit is atomic: however
\* concurrent check() calls interleave, the admitted costs never take the
\* counter above the limit, and no two threads have both seen room for the
\* same remaining capacity and are both admitting.
C26_AtomicAdmit ==
    /\ FLe(tb.counter, tb.limit)
    /\ \A t, u \in Threads :
          (t # u /\ Admitting(t) /\ Admitting(u))
            => FLe(FAdd(FAdd(tb.counter, th[t].cost), th[u].cost), tb.limit)

\* ------------------------------------------------------------------------
\* Properties of gather_closed_orders, gather_trades and gather_ledgers

\* the number of entries received with the first j pages
RECURSIVE Received(_, _)
Received(h, j) == IF j = 0 THEN 0 ELSE Received(h, j - 1) + Cardinality(h[j].page)

\* the loop of gather_* is running
Gathering == gpc \in {"while", "request", "return"}

\* the entries of a server with n entries from number start on
EntriesFrom(n, start) == {e \in 0..(n - 1) : e >= start}

\* every page was requested at the start offset plus the number of entries
\* received before it, and the loop is left exactly when the offset has
\* reached the total last reported or the last page was empty
PagesInOrder ==
    /\ \A j \in 1..Len(ghist) :
          ServerOffset(ghist[j].ofs) = gstart + Received(ghist, j - 1)
    /\ gpc # "idle" => gofs = gstart + Received(ghist, Len(ghist))
    /\ gcoll = UNION {ghist[j].page : j \in 1..Len(ghist)}
    /\ gpc \in {"return", "done"}
          => /\ ghist # <<>>
             /\ \/ ghist[Len(ghist)].page = {}
                \/ gofs >= ghist[Len(ghist)].total
    /\ (gpc \in {"while", "request"} /\ ghist # <<>>)
          => ghist[Len(ghist)].page # {} /\ gtotal = ghist[Len(ghist)].total
    /\ gpc = "request" => gofs < gtotal

\* C27: gather_ledgers, gather_trades and gather_closed_orders request each
\* page at the start offset plus the number of entries received so far, stop
\* when that offset reaches the total last reported or when a page is empty,
\* and return the union of the pages; against a server that reports a fixed
\* total and returns a non-empty page for every offset below it, the loop
\* terminates and has collected every entry from the start offset on.
C27_GatherPaginates ==
    /\ []PagesInOrder
    /\ (gsrv.steady /\ Gathering) ~> (gpc = "done")
    /\ []((gsrv.steady /\ gpc = "done") => gcoll = EntriesFrom(gsrv.n, gstart))

C27_Witness ==
    /\ gpc = "done" /\ gsrv.steady /\ gsrv.n = 3 /\ gstart = 1
    /\ gfun = "gather_trades"
    /\ Len(ghist) = 2 /\ ghist[1].ofs = 1 /\ ghist[2].ofs = 2
    /\ gcoll = {1, 2}

\* ------------------------------------------------------------------------
\* Properties of the nonces

\* C28: the nonces of the successive signed private requests of one client,
\* retries included, are strictly increasing.
C28_NoncesIncrease ==
    \A j \in 1..(Len(nsent) - 1) : nsent[j] < nsent[j + 1]

\* ------------------------------------------------------------------------
\* The two budgets of a limiter

\* the budget that the last call on the limiter was not for
Other == OtherBudget(ClassOf(lcall.m))

\* C29: check_call, blocking or not, admitted or denied, and set_exceeded
\* for a public endpoint leave the counter and the time of the last decay of
\* the private budget as they were, and the same calls for a private
\* endpoint leave those of the public budget as they were: the other budget
\* only ages by the seconds the call slept.
C29_BudgetsIndependent ==
    (lcall.op \in {"check_call", "set_exceeded"} /\ IsEndpoint(lcall.m))
      => /\ lim[Other].counter = lim0[Other].counter
         /\ ~lcall.idle => lim[Other] = Elapsed(lim0[Other], lcall.slept)

C29_Witness ==
    /\ lcall.op = "set_exceeded" /\ lcall.m = "Time" /\ ~lcall.idle
    /\ lim0.private.counter = 2 * Scale /\ lim0.private.since > 0
    /\ lim.private = lim0.private
    /\ lim.public.counter = 4 * Scale

\* ------------------------------------------------------------------------
\* A construction that fails

\* C30: a Currency or CurrencyPair construction that raises AssertionError,
\* for a collision of the symbol or of the alternative name, leaves the
\* registry as it was: no key maps to the instance that failed, and every
\* key still maps to the instance first registered for it.
C30_FailedConstructionNoChange ==
    (rop.op = "new" /\ rop.err = "AssertionError")
      => \A k \in Keys :
            /\ registry[k].id # rop.id
            /\ registry[k].id = first[k]

====
